---- MODULE Spec2Model ----
(***************************************************************************)
(* Log parsing and extraction pipeline of dashboard.py: parse_log_line,    *)
(* extract_oi_data, extract_strike_data and the loop of process_log_data.  *)
(*                                                                         *)
(* A Python str is modelled as a sequence of one-character strings, so     *)
(* that splitting, joining, regular-expression matching and strptime are   *)
(* computed character by character.  Python's None is the empty tuple <<>> *)
(* and a present value v is the one-element tuple <<v>>.                   *)
(***************************************************************************)
EXTENDS Integers, Sequences, FiniteSets, TLC

VARIABLES log_text, lines, idx, line, timestamp, message,
          ce_oi, pe_oi, strike, data, pc

vars == <<log_text, lines, idx, line, timestamp, message,
          ce_oi, pe_oi, strike, data, pc>>

None == <<>>

Some(v) == <<v>>

----------------------------------------------------------------------------
(* Characters and the str methods the program uses                         *)

Digit == {"0", "1", "2", "3", "4", "5", "6", "7", "8", "9"}

Whitespace == {" ", "\t"}

isdigit(c) == c \in Digit

DigitVal(c) ==
  CASE c = "0" -> 0 [] c = "1" -> 1 [] c = "2" -> 2 [] c = "3" -> 3
    [] c = "4" -> 4 [] c = "5" -> 5 [] c = "6" -> 6 [] c = "7" -> 7
    [] c = "8" -> 8 [] c = "9" -> 9

\* s[i], or the empty string past the end of s
At(s, i) == IF i >= 1 /\ i <= Len(s) THEN s[i] ELSE ""

\* int(str) on a run of decimal digits; surrounding whitespace is ignored
RECURSIVE int(_)
int(ds) ==
  IF ds = <<>> THEN 0
  ELSE IF ds[Len(ds)] \in Whitespace THEN int(SubSeq(ds, 1, Len(ds) - 1))
  ELSE IF ds[1] \in Whitespace THEN int(Tail(ds))
  ELSE 10 * int(SubSeq(ds, 1, Len(ds) - 1)) + DigitVal(ds[Len(ds)])

StartsWithAt(s, i, lit) ==
  /\ i >= 1
  /\ i + Len(lit) - 1 <= Len(s)
  /\ SubSeq(s, i, i + Len(lit) - 1) = lit

\* str.find: lowest index >= start where sub occurs, 0 when there is none
find(s, sub, start) ==
  LET hits == {i \in start..(Len(s) - Len(sub) + 1) : StartsWithAt(s, i, sub)}
  IN IF hits = {} THEN 0 ELSE CHOOSE i \in hits : \A j \in hits : i <= j

\* sub in s
contains(s, sub) == find(s, sub, 1) # 0

\* s.split(sep)
RECURSIVE split(_, _)
split(s, sep) ==
  LET i == find(s, sep, 1)
  IN IF i = 0 THEN <<s>>
     ELSE <<SubSeq(s, 1, i - 1)>> \o split(SubSeq(s, i + Len(sep), Len(s)), sep)

\* sep.join(parts)
RECURSIVE join(_, _)
join(sep, parts) ==
  IF parts = <<>> THEN <<>>
  ELSE IF Len(parts) = 1 THEN parts[1]
  ELSE parts[1] \o sep \o join(sep, Tail(parts))

\* number of consecutive characters of class cls starting at s[i]
RunLen(s, i, cls) ==
  IF i > Len(s) THEN 0
  ELSE CHOOSE n \in 0..(Len(s) - i + 1) :
         /\ At(s, i + n) \notin cls
         /\ \A k \in i..(i + n - 1) : s[k] \in cls

\* <<hi, hi-1, ..., lo>>: the order in which a greedy quantifier tries lengths
RECURSIVE Down(_, _)
Down(hi, lo) == IF hi < lo THEN <<>> ELSE <<hi>> \o Down(hi - 1, lo)

Min(a, b) == IF a < b THEN a ELSE b

----------------------------------------------------------------------------
(* datetime.strptime(timestamp_str, "%Y-%m-%d %H:%M:%S,%f")                *)

\* the format, one element per directive or literal; the blank is \s+
Format == <<"Y", "-", "m", "-", "d", "ws", "H", ":", "M", ":", "S", ",", "f">>

Alt(cond, n) == IF cond THEN <<n>> ELSE <<>>

D19 == Digit \ {"0"}

\* the lengths element e can match at s[i], in the order the regex tries them
Cands(e, s, i) ==
  LET a == At(s, i)
      b == At(s, i + 1)
  IN CASE e = "Y" -> Alt(\A k \in i..(i + 3) : isdigit(At(s, k)), 4)
       [] e = "m" -> Alt(a = "1" /\ b \in {"0", "1", "2"}, 2)
                     \o Alt(a = "0" /\ b \in D19, 2)
                     \o Alt(a \in D19, 1)
       [] e = "d" -> Alt(a = "3" /\ b \in {"0", "1"}, 2)
                     \o Alt(a \in {"1", "2"} /\ isdigit(b), 2)
                     \o Alt(a = "0" /\ b \in D19, 2)
                     \o Alt(a \in D19, 1)
                     \o Alt(a = " " /\ b \in D19, 2)
       [] e = "H" -> Alt(a = "2" /\ b \in {"0", "1", "2", "3"}, 2)
                     \o Alt(a \in {"0", "1"} /\ isdigit(b), 2)
                     \o Alt(isdigit(a), 1)
       [] e = "M" -> Alt(a \in {"0", "1", "2", "3", "4", "5"} /\ isdigit(b), 2)
                     \o Alt(isdigit(a), 1)
       [] e = "S" -> Alt(a = "6" /\ b \in {"0", "1"}, 2)
                     \o Alt(a \in {"0", "1", "2", "3", "4", "5"} /\ isdigit(b), 2)
                     \o Alt(isdigit(a), 1)
       [] e = "f" -> Down(Min(RunLen(s, i, Digit), 6), 1)
       [] e = "ws" -> Down(RunLen(s, i, Whitespace), 1)
       [] OTHER -> Alt(a = e, 1)

\* format_regex.match(s): the lengths matched by the elements from the k-th
\* on, for the first alternative (in backtracking order) that succeeds
RECURSIVE re_match(_, _, _), re_try(_, _, _, _)
re_match(s, i, k) ==
  IF k > Len(Format) THEN Some(<<>>)
  ELSE re_try(s, i, k, Cands(Format[k], s, i))

re_try(s, i, k, cands) ==
  IF cands = <<>> THEN None
  ELSE LET r == re_match(s, i + Head(cands), k + 1)
       IN IF r # None THEN Some(<<Head(cands)>> \o r[1])
          ELSE re_try(s, i, k, Tail(cands))

RECURSIVE Sum(_)
Sum(ns) == IF ns = <<>> THEN 0 ELSE Head(ns) + Sum(Tail(ns))

\* the text of the k-th element of a match with lengths ns
Group(s, ns, k) ==
  LET from == 1 + Sum(SubSeq(ns, 1, k - 1))
  IN SubSeq(s, from, from + ns[k] - 1)

IsLeap(y) == (y % 4 = 0) /\ ((y % 100 # 0) \/ (y % 400 = 0))

DaysInMonth(y, m) ==
  IF m = 2 THEN (IF IsLeap(y) THEN 29 ELSE 28)
  ELSE IF m \in {4, 6, 9, 11} THEN 30 ELSE 31

\* the range checks of the datetime constructor
ValidDateTime(dt) ==
  /\ dt.year >= 1 /\ dt.year <= 9999
  /\ dt.month >= 1 /\ dt.month <= 12
  /\ dt.day >= 1 /\ dt.day <= DaysInMonth(dt.year, dt.month)
  /\ dt.hour >= 0 /\ dt.hour <= 23
  /\ dt.minute >= 0 /\ dt.minute <= 59
  /\ dt.second >= 0 /\ dt.second <= 59
  /\ dt.microsecond >= 0 /\ dt.microsecond <= 999999

\* s += "0" * (6 - len(s))
RECURSIVE PadMicro(_)
PadMicro(f) == IF Len(f) >= 6 THEN f ELSE PadMicro(f \o <<"0">>)

\* Some(datetime), or None where strptime raises ValueError
strptime(s) ==
  LET found == re_match(s, 1, 1)
  IN IF found = None THEN None
     ELSE IF Sum(found[1]) # Len(s) THEN None
     ELSE LET ns == found[1]
              dt == [year |-> int(Group(s, ns, 1)),
                     month |-> int(Group(s, ns, 3)),
                     day |-> int(Group(s, ns, 5)),
                     hour |-> int(Group(s, ns, 7)),
                     minute |-> int(Group(s, ns, 9)),
                     second |-> int(Group(s, ns, 11)),
                     microsecond |-> int(PadMicro(Group(s, ns, 13)))]
          IN IF ValidDateTime(dt) THEN Some(dt) ELSE None

----------------------------------------------------------------------------
(* parse_log_line                                                          *)

Delim == <<":", " ">>

\* parse_log_line keeping only the field after the first ": " as the message
parse_log_line_second_field(ln) ==
  LET fields == split(ln, Delim)
      ts == strptime(fields[1])
  IN IF ts = None THEN <<None, None>>
     ELSE <<ts, Some(IF Len(fields) >= 2 THEN fields[2] ELSE <<>>)>>

\* <<timestamp, message>>, each None or present
parse_log_line(ln) ==
  LET timestamp_str == split(ln, Delim)[1]
      msg == join(Delim, Tail(split(ln, Delim)))
      ts == strptime(timestamp_str)
  IN IF ts = None THEN <<None, None>> ELSE <<ts, Some(msg)>>

----------------------------------------------------------------------------
(* extract_oi_data                                                         *)

MarkerOI == <<"A", "T", "M", " ", "C", "E", " ", "O", "I", ":">>

PatOI == <<"O", "I", ":">>

\* re.findall(r"OI:(\d+)", s): the digit runs of the non-overlapping
\* matches found scanning from pos, left to right
RECURSIVE findall_oi(_, _)
findall_oi(s, pos) ==
  IF pos > Len(s) THEN <<>>
  ELSE IF StartsWithAt(s, pos, PatOI) /\ RunLen(s, pos + 3, Digit) >= 1
  THEN LET n == RunLen(s, pos + 3, Digit)
       IN <<SubSeq(s, pos + 3, pos + 2 + n)>> \o findall_oi(s, pos + 3 + n)
  ELSE findall_oi(s, pos + 1)

\* int(str) refuses a string of more than this many digits with ValueError:
\* the default of sys.int_info.default_max_str_digits in CPython
MaxStrDigits == 4300

\* the call extract_oi_data(msg) ends in the ValueError of int(values[0]) or
\* int(values[1]), which nothing in the function catches
extract_oi_data_raises(msg) ==
  /\ contains(msg, MarkerOI)
  /\ LET values == findall_oi(msg, 1)
     IN /\ Len(values) >= 2
        /\ (Len(values[1]) > MaxStrDigits \/ Len(values[2]) > MaxStrDigits)

\* <<ce_oi, pe_oi>>, each None or present, when the call returns
extract_oi_data(msg) ==
  IF contains(msg, MarkerOI)
  THEN LET values == findall_oi(msg, 1)
       IN IF Len(values) >= 2
          THEN <<Some(int(values[1])), Some(int(values[2]))>>
          ELSE <<None, None>>
  ELSE <<None, None>>

----------------------------------------------------------------------------
(* extract_strike_data                                                     *)

MarkerStrike == <<"A", "T", "M", " ", "s", "t", "r", "i", "k", "e", "s", ":">>

BANKNIFTY == <<"B", "A", "N", "K", "N", "I", "F", "T", "Y">>

\* the order if the quantifier before the group were lazy, \d+?(\d+)
PreferredLazy(p, q) ==
  \/ p[1] > q[1]
  \/ p[1] = q[1] /\ p[2] < q[2]
  \/ p[1] = q[1] /\ p[2] = q[2] /\ p[3] >= q[3]

\* Backtracking order of \d+(\d+): both quantifiers are greedy, so of two
\* ways <<n1, n2, n3>> to match, the one that gives more characters to the
\* earlier quantifier is tried first
Preferred(p, q) ==
  \/ p[1] > q[1]
  \/ p[1] = q[1] /\ p[2] > q[2]
  \/ p[1] = q[1] /\ p[2] = q[2] /\ p[3] >= q[3]

\* the ways BANKNIFTY\d+[NF]\d+(\d+)(CE|PE) matches at s[pos]: n1, n2 and
\* n3 are the lengths of the three digit runs
StrikePaths(s, pos) ==
  IF ~StartsWithAt(s, pos, BANKNIFTY) THEN {}
  ELSE LET p1 == pos + Len(BANKNIFTY)
           r1 == RunLen(s, p1, Digit)
       IN UNION { LET p2 == p1 + n1 + 1
                      r2 == RunLen(s, p2, Digit)
                  IN { <<n1, y[1], y[2]>> :
                         y \in { x \in (1..r2) \X (1..r2) :
                                   /\ x[1] + x[2] <= r2
                                   /\ \/ StartsWithAt(s, p2 + x[1] + x[2], <<"C", "E">>)
                                      \/ StartsWithAt(s, p2 + x[1] + x[2], <<"P", "E">>) } }
                : n1 \in { n \in 1..r1 : At(s, p1 + n) \in {"N", "F"} } }

\* the match at s[pos]: None, or its end and its two groups
strike_match(s, pos) ==
  LET paths == StrikePaths(s, pos)
  IN IF paths = {} THEN None
     ELSE LET p == CHOOSE x \in paths : \A q \in paths : Preferred(x, q)
              g1 == pos + Len(BANKNIFTY) + p[1] + 1 + p[2]
          IN Some([end |-> g1 + p[3] + 2,
                   groups |-> <<SubSeq(s, g1, g1 + p[3] - 1),
                                SubSeq(s, g1 + p[3], g1 + p[3] + 1)>>])

\* re.findall(r"BANKNIFTY\d+[NF]\d+(\d+)(CE|PE)", s) scanning from pos
RECURSIVE findall_strike(_, _)
findall_strike(s, pos) ==
  IF pos > Len(s) THEN <<>>
  ELSE LET m == strike_match(s, pos)
       IN IF m = None THEN findall_strike(s, pos + 1)
          ELSE <<m[1].groups>> \o findall_strike(s, m[1].end)

\* extract_strike_data returning the strike of the last match
extract_strike_data_last(msg) ==
  IF contains(msg, MarkerStrike)
  THEN LET strikes == findall_strike(msg, 1)
       IN IF strikes # <<>> THEN Some(strikes[Len(strikes)][1]) ELSE None
  ELSE None

\* None, or the present strike string
extract_strike_data(msg) ==
  IF contains(msg, MarkerStrike)
  THEN LET strikes == findall_strike(msg, 1)
       IN IF strikes # <<>> THEN Some(strikes[1][1]) ELSE None
  ELSE None

----------------------------------------------------------------------------
(* process_log_data                                                        *)

Newline == <<"\n">>

\* the OI dict with the magnitude of the difference
OIRowAbs(ts, ce, pe) ==
  [timestamp |-> ts, ce_oi |-> ce, pe_oi |-> pe,
   oi_difference |-> IF ce >= pe THEN ce - pe ELSE pe - ce]

\* the dict appended for an OI pair
OIRow(ts, ce, pe) ==
  [timestamp |-> ts, ce_oi |-> ce, pe_oi |-> pe, oi_difference |-> ce - pe]

\* the dict appended for a strike
StrikeRow(ts, k) == [timestamp |-> ts, strike |-> k]

\* truth value of an optional datetime: every datetime is true
TruthyTime(t) == t # None

\* truth value of an optional str: None and "" are false
TruthyStr(v) == v # None /\ v[1] # <<>>

\* lines = log_text.split('\n'); data = []
Split ==
  /\ pc = "start"
  /\ lines' = split(log_text, Newline)
  /\ data' = <<>>
  /\ idx' = 1
  /\ pc' = "loop"
  /\ UNCHANGED <<log_text, line, timestamp, message, ce_oi, pe_oi, strike>>

\* the rows of one parsed line with the strike dict appended first
RowsStrikeFirst(ts, oi, k) ==
  (IF TruthyStr(k) THEN <<StrikeRow(ts, k[1])>> ELSE <<>>)
  \o (IF oi[1] # None /\ oi[2] # None
      THEN <<OIRow(ts, oi[1][1], oi[2][1])>> ELSE <<>>)

\* the rows one parsed line appends: the OI dict first, then the strike dict
Rows(ts, oi, k) ==
  (IF oi[1] # None /\ oi[2] # None
   THEN <<OIRow(ts, oi[1][1], oi[2][1])>> ELSE <<>>)
  \o (IF TruthyStr(k) THEN <<StrikeRow(ts, k[1])>> ELSE <<>>)

\* one iteration of the for loop; the locals keep their values from one
\* iteration to the next, as Python function locals do.  An exception of
\* extract_oi_data leaves the loop and the function: it is caught nowhere
Iterate ==
  /\ pc = "loop"
  /\ idx <= Len(lines)
  /\ LET ln == lines[idx]
         parsed == parse_log_line(ln)
         oi == extract_oi_data(parsed[2][1])
         k == extract_strike_data(parsed[2][1])
     IN /\ line' = Some(ln)
        /\ timestamp' = parsed[1]
        /\ message' = parsed[2]
        /\ IF TruthyTime(parsed[1]) /\ extract_oi_data_raises(parsed[2][1])
           THEN /\ pc' = "raised"
                /\ UNCHANGED <<ce_oi, pe_oi, strike, data, idx>>
           ELSE /\ pc' = pc
                /\ idx' = idx + 1
                /\ IF TruthyTime(parsed[1])
                   THEN /\ ce_oi' = oi[1]
                        /\ pe_oi' = oi[2]
                        /\ strike' = k
                        /\ data' = data \o Rows(parsed[1][1], oi, k)
                   ELSE UNCHANGED <<ce_oi, pe_oi, strike, data>>
  /\ UNCHANGED <<log_text, lines>>

\* return pd.DataFrame(data)
Return ==
  /\ pc = "loop"
  /\ idx > Len(lines)
  /\ pc' = "done"
  /\ UNCHANGED <<log_text, lines, idx, line, timestamp, message,
                 ce_oi, pe_oi, strike, data>>

Next == Split \/ Iterate \/ Return

\* the state on entry to process_log_data(text): no local is bound yet
Entry(text) ==
  /\ log_text = text
  /\ lines = <<>>
  /\ idx = 0
  /\ line = None
  /\ timestamp = None
  /\ message = None
  /\ ce_oi = None
  /\ pe_oi = None
  /\ strike = None
  /\ data = <<>>
  /\ pc = "start"

----------------------------------------------------------------------------
(* Inputs                                                                  *)

RECURSIVE Concat(_)
Concat(ss) == IF ss = <<>> THEN <<>> ELSE Head(ss) \o Concat(Tail(ss))

\* all sequences of at most n elements of set S
RECURSIVE SeqsUpTo(_, _)
SeqsUpTo(S, n) ==
  IF n = 0 THEN {<<>>}
  ELSE LET shorter == SeqsUpTo(S, n - 1)
       IN shorter \cup {Append(q, x) : q \in shorter, x \in S}

\* Timestamp candidates: for each of year, month, day, date/time separator,
\* hour, minute, second, fraction separator and fraction, the spellings
\* tried; the first of each is the one of the format YYYY-MM-DD HH:MM:SS,mmm
FieldVariants ==
  <<<<<<"2", "0", "2", "4">>,
      <<"2", "0", "2", "3">>,
      <<"0", "0", "0", "0">>,
      <<"2", "0", "2">>>>,
    <<<<"0", "1">>,
      <<"0", "2">>,
      <<"1", "2">>,
      <<"1">>,
      <<"1", "3">>,
      <<"0", "0">>>>,
    <<<<"1", "5">>,
      <<"2", "9">>,
      <<"3", "0">>,
      <<"5">>,
      <<" ", "5">>,
      <<"3", "2">>>>,
    <<<<" ">>,
      <<" ", " ">>,
      <<"T">>>>,
    <<<<"0", "9">>,
      <<"2", "3">>,
      <<"9">>,
      <<"2", "4">>>>,
    <<<<"3", "0">>,
      <<"3">>,
      <<"6", "0">>>>,
    <<<<"0", "0">>,
      <<"5", "9">>,
      <<"0">>,
      <<"6", "0">>,
      <<"6", "2">>>>,
    <<<<",">>,
      <<".">>>>,
    <<<<"1", "2", "3">>,
      <<"1">>,
      <<"1", "2">>,
      <<"1", "2", "3", "4">>,
      <<"1", "2", "3", "4", "5">>,
      <<"1", "2", "3", "4", "5", "6">>,
      <<"1", "2", "3", "4", "5", "6", "7">>,
      <<>>>>>>

MaxDeviations == 2

\* a candidate spells at most MaxDeviations fields differently from the first
TsCandidates ==
  LET F == DOMAIN FieldVariants
      Widest == 8
      Pick(D, f) == [k \in F |-> IF k \in D THEN FieldVariants[k][f[k]]
                                 ELSE FieldVariants[k][1]]
      Spell(v) == v[1] \o <<"-">> \o v[2] \o <<"-">> \o v[3] \o v[4]
                  \o v[5] \o <<":">> \o v[6] \o <<":">> \o v[7] \o v[8] \o v[9]
  IN UNION { { Spell(Pick(D, f)) :
                 f \in { g \in [D -> 2..Widest] :
                           \A k \in D : g[k] <= Len(FieldVariants[k]) } }
             : D \in { E \in SUBSET F : Cardinality(E) <= MaxDeviations } }

\* what follows the timestamp candidate on the line
Tails ==
  {<<>>,
   <<":", " ">>,
   <<":">>,
   <<":", " ", "x">>,
   <<":", " ", "a", ":", " ", "b", ":", " ">>,
   <<":", " ", ":", " ", " ", "c">>}

ParseInputs == { t \o r : t \in TsCandidates, r \in Tails }

\* Messages: up to MaxParts of these pieces, after a fixed valid prefix
Parts ==
  {<<"A", "T", "M", " ", "C", "E", " ", "O", "I", ":">>,
   <<"A", "T", "M", " ", "C", "E", " ", "O", "I", ":", "1", "5", "0", "0", "0", "0", "0">>,
   <<" ", "P", "E", " ", "O", "I", ":", "1", "2", "0", "0", "0", "0", "0">>,
   <<"O", "I", ":", "7">>,
   <<"A", "T", "M", " ", "s", "t", "r", "i", "k", "e", "s", ":">>,
   <<" ", "B", "A", "N", "K", "N", "I", "F", "T", "Y", "2", "4", "N", "0", "6", "4", "5", "0", "0", "0", "C", "E">>,
   <<"B", "A", "N", "K", "N", "I", "F", "T", "Y", "2", "4", "F", "4", "5", "P", "E">>,
   <<"B", "A", "N", "K", "N", "I", "F", "T", "Y", "2", "4", "N", "4", "C", "E">>,
   <<" ", "B", "A", "N", "K", "N", "I", "F", "T", "Y", "2", "4", "J", "A", "N", "4", "5", "0", "0", "0", "C", "E">>,
   <<":", " ">>}

MaxParts == 3

Prefix == <<"2", "0", "2", "4", "-", "0", "1", "-", "1", "5", " ", "0", "9", ":", "3", "0", ":", "0", "0", ",", "4", "5", "6", ":", " ">>

\* n times the character c
Rep(c, n) == [i \in 1..n |-> c]

\* a message whose first OI number has one digit more than int() takes
BigMsg ==
  MarkerOI \o Rep("1", MaxStrDigits + 1)
  \o <<" ", "P", "E", " ", "O", "I", ":", "1", "2">>

MsgInputs ==
  { Prefix \o Concat(q) : q \in SeqsUpTo(Parts, MaxParts) }
  \cup {Prefix \o BigMsg}

\* Logs: up to MaxLines of these lines, separated by newlines
LogLines ==
  {<<"2", "0", "2", "4", "-", "0", "1", "-", "1", "5", " ", "0", "9", ":", "3", "0", ":", "0", "0", ",", "1", "2", "3", ":", " ", "A", "T", "M", " ", "C", "E", " ", "O", "I", ":", "1", "5", "0", "0", "0", "0", "0", " ", "P", "E", " ", "O", "I", ":", "1", "2", "0", "0", "0", "0", "0">>,
   <<"2", "0", "2", "4", "-", "0", "1", "-", "1", "5", " ", "0", "9", ":", "3", "0", ":", "0", "0", ",", "4", "5", "6", ":", " ", "A", "T", "M", " ", "s", "t", "r", "i", "k", "e", "s", ":", " ", "B", "A", "N", "K", "N", "I", "F", "T", "Y", "2", "4", "J", "A", "N", "4", "5", "0", "0", "0", "C", "E">>,
   <<"2", "0", "2", "4", "-", "0", "1", "-", "1", "5", " ", "0", "9", ":", "2", "9", ":", "5", "9", ",", "0", "0", "0", ":", " ", "A", "T", "M", " ", "s", "t", "r", "i", "k", "e", "s", ":", " ", "B", "A", "N", "K", "N", "I", "F", "T", "Y", "2", "4", "N", "0", "6", "4", "5", "0", "0", "0", "C", "E">>,
   <<"g", "a", "r", "b", "a", "g", "e", " ", "l", "i", "n", "e", " ", "w", "i", "t", "h", " ", "n", "o", " ", "t", "i", "m", "e", "s", "t", "a", "m", "p">>,
   <<>>,
   <<"2", "0", "2", "4", "-", "0", "1", "-", "1", "5", " ", "0", "9", ":", "2", "8", ":", "0", "0", ",", "5", "0", "0", ":", " ", "A", "T", "M", " ", "C", "E", " ", "O", "I", ":", "7", " ", "P", "E", " ", "O", "I", ":", "1", "2", " ", "A", "T", "M", " ", "s", "t", "r", "i", "k", "e", "s", ":", " ", "B", "A", "N", "K", "N", "I", "F", "T", "Y", "2", "4", "F", "4", "5", "P", "E">>,
   <<"2", "0", "2", "4", "-", "0", "1", "-", "1", "5", " ", "0", "9", ":", "3", "0", ":", "0", "0", ",", "1", "2", "3">>}

MaxLines == 3

\* and the logs with the overlong number on a line between two plain ones
LogInputs ==
  { join(Newline, q) : q \in SeqsUpTo(LogLines, MaxLines) }
  \cup { join(Newline, <<a, Prefix \o BigMsg, b>>) : a, b \in LogLines }

\* process_log_data on a log of several lines
Init == \E text \in LogInputs : Entry(text)

Spec == Init /\ [][Next]_vars

\* process_log_data on one line with a varied timestamp prefix
InitParse == \E text \in ParseInputs : Entry(text)

SpecParse == InitParse /\ [][Next]_vars

\* process_log_data on one well-stamped line with a varied message
InitMsg == \E text \in MsgInputs : Entry(text)

SpecMsg == InitMsg /\ [][Next]_vars

----------------------------------------------------------------------------
(* Vocabulary of the properties, stated on the text itself, without the    *)
(* operators that model the code                                           *)

\* the text occurs in s at position i
OccursAt(s, i, text) ==
  /\ i >= 1
  /\ i + Len(text) - 1 <= Len(s)
  /\ \A k \in 1..Len(text) : s[i + k - 1] = text[k]

Occurs(s, text) == \E i \in 1..Len(s) : OccursAt(s, i, text)

AllDigits(s, from, to) == \A k \in from..to : k <= Len(s) /\ s[k] \in Digit

RECURSIVE Pow10(_)
Pow10(n) == IF n = 0 THEN 1 ELSE 10 * Pow10(n - 1)

\* the number written by the n digits of s that start at position i
RECURSIVE DecVal(_, _, _)
DecVal(s, i, n) ==
  IF n = 0 THEN 0
  ELSE DigitVal(s[i]) * Pow10(n - 1) + DecVal(s, i + 1, n - 1)

\* the least and the second least element of a set of positions
Least(P) == CHOOSE i \in P : \A j \in P : i <= j

Second(P) == Least(P \ {Least(P)})

\* the line the loop has just handled, and whether it has handled one
Handled == line # None

Line == line[1]

\* the line was parsed and both extractors ran on its message and returned
Parsed == Handled /\ timestamp # None /\ pc # "raised"

\* s is spelled exactly YYYY-MM-DD HH:MM:SS,mmm
ExactFormat(s) ==
  /\ Len(s) = 23
  /\ AllDigits(s, 1, 4) /\ s[5] = "-"
  /\ AllDigits(s, 6, 7) /\ s[8] = "-"
  /\ AllDigits(s, 9, 10) /\ s[11] = " "
  /\ AllDigits(s, 12, 13) /\ s[14] = ":"
  /\ AllDigits(s, 15, 16) /\ s[17] = ":"
  /\ AllDigits(s, 18, 19) /\ s[20] = ","
  /\ AllDigits(s, 21, 23)

\* the instant an exactly formatted s writes
StampOf(s) ==
  [year |-> DecVal(s, 1, 4), month |-> DecVal(s, 6, 2),
   day |-> DecVal(s, 9, 2), hour |-> DecVal(s, 12, 2),
   minute |-> DecVal(s, 15, 2), second |-> DecVal(s, 18, 2),
   microsecond |-> 1000 * DecVal(s, 21, 3)]

\* the part of the line before its first ": ", the whole line without one
Candidate(ln) ==
  IF Occurs(ln, Delim)
  THEN SubSeq(ln, 1, Least({i \in 1..Len(ln) : OccursAt(ln, i, Delim)}) - 1)
  ELSE ln

\* <ts>: <msg> where <ts> is exactly formatted and names a real instant
WellFormed(ln) ==
  /\ Len(ln) >= 25
  /\ ExactFormat(SubSeq(ln, 1, 23))
  /\ ln[24] = ":" /\ ln[25] = " "
  /\ LET t == StampOf(SubSeq(ln, 1, 23))
     IN /\ t.year >= 1
        /\ t.month \in 1..12
        /\ t.day \in 1..DaysInMonth(t.year, t.month)
        /\ t.hour <= 23 /\ t.minute <= 59 /\ t.second <= 59

MsgOf(ln) == SubSeq(ln, 26, Len(ln))

\* positions of the message where OI: is immediately followed by a digit
OIOccurrences(m) ==
  {i \in 1..Len(m) : OccursAt(m, i, PatOI) /\ At(m, i + 3) \in Digit}

\* the number written by the whole digit run that starts at position i
RunVal(m, i) ==
  LET n == CHOOSE k \in 1..Len(m) :
             At(m, i + k) \notin Digit /\ AllDigits(m, i, i + k - 1)
  IN DecVal(m, i, n)

\* m[i..j] is an instrument code BANKNIFTY<digits><N|F><digits><digits><CE|PE>
\* whose letter N or F stands at position l
IsCode(m, i, l, j) ==
  /\ OccursAt(m, i, BANKNIFTY)
  /\ l >= i + Len(BANKNIFTY) + 1
  /\ AllDigits(m, i + Len(BANKNIFTY), l - 1)
  /\ At(m, l) \in {"N", "F"}
  /\ j - 2 >= l + 2
  /\ AllDigits(m, l + 1, j - 2)
  /\ (OccursAt(m, j - 1, <<"C", "E">>) \/ OccursAt(m, j - 1, <<"P", "E">>))
  /\ j <= Len(m)

\* the instrument codes of the message, as <<start, letter, end>>
Codes(m) ==
  LET B == {i \in 1..Len(m) : OccursAt(m, i, BANKNIFTY)}
      L == {l \in 1..Len(m) : m[l] \in {"N", "F"}}
      E == {j \in 1..Len(m) : m[j] = "E"}
  IN {c \in B \X L \X E : IsCode(m, c[1], c[2], c[3])}

\* the leftmost instrument code
FirstCode(m) == CHOOSE c \in Codes(m) : \A d \in Codes(m) : c[1] <= d[1]

IsOI(r) == DOMAIN r = {"timestamp", "ce_oi", "pe_oi", "oi_difference"}

IsStrike(r) == DOMAIN r = {"timestamp", "strike"}

----------------------------------------------------------------------------
(* Line Parser                                                             *)

\* C2: every line without the delimiter ": " is parsed as absent
\* (None, None), a line that is nothing but a timestamp included.
C2_NoDelimiterAbsent ==
  (Handled /\ ~Occurs(Line, Delim)) => (timestamp = None /\ message = None)

\* C3: for a well-formed line <ts>: <msg>, with <ts> spelled
\* YYYY-MM-DD HH:MM:SS,mmm and naming a real instant, the parser returns that
\* instant and exactly <msg>, everything after the first ": ", whether <msg>
\* is empty or holds further ": ".
C3_ParseRecovers ==
  (Handled /\ WellFormed(Line)) =>
     /\ timestamp = Some(StampOf(SubSeq(Line, 1, 23)))
     /\ message = Some(MsgOf(Line))

\* a well-formed line whose message holds ": " twice and ends with it was
\* parsed
C3_Witness ==
  /\ Handled
  /\ WellFormed(Line)
  /\ Cardinality({i \in 1..Len(MsgOf(Line)) : OccursAt(MsgOf(Line), i, Delim)}) >= 2
  /\ OccursAt(Line, Len(Line) - 1, Delim)
  /\ message = Some(MsgOf(Line))

\* C8: a timestamp is produced only when the text before the first ": " is
\* spelled exactly YYYY-MM-DD HH:MM:SS,mmm, so every produced timestamp is a
\* whole number of milliseconds.
C8_ExactFormatOnly ==
  Parsed => (ExactFormat(Candidate(Line)) /\ timestamp[1].microsecond % 1000 = 0)

----------------------------------------------------------------------------
(* Field Extractors                                                        *)

\* C4: for every message the OI Extractor returns, and it returns a present
\* pair exactly when the message holds the marker "ATM CE OI:" and at least
\* two occurrences of OI: immediately followed by digits; ce_oi is then the
\* number of the first digit run and pe_oi that of the second, later
\* occurrences being ignored.
C4_OIExtractor ==
  (Handled /\ timestamp # None) =>
    /\ pc # "raised"
    /\ LET m == message[1]
           occ == OIOccurrences(m)
       IN IF Occurs(m, MarkerOI) /\ Cardinality(occ) >= 2
          THEN /\ ce_oi = Some(RunVal(m, Least(occ) + 3))
               /\ pe_oi = Some(RunVal(m, Second(occ) + 3))
          ELSE ce_oi = None /\ pe_oi = None

\* C9: for a message with the marker "ATM strikes:" and instrument codes,
\* two or more included, the Strike Extractor returns digits of the first
\* (leftmost) code only: a non-empty string of digits that ends right before
\* that code's CE or PE and lies after its N or F, whatever the later codes
\* are.  Without the marker or without a code the result is absent.
C9_FirstCodeOnly ==
  Parsed =>
    LET m == message[1]
    IN IF Occurs(m, MarkerStrike) /\ Codes(m) # {}
       THEN LET c == FirstCode(m)
            IN /\ strike # None
               /\ Len(strike[1]) >= 1
               /\ Len(strike[1]) <= c[3] - 2 - c[2]
               /\ strike[1] = SubSeq(m, c[3] - 1 - Len(strike[1]), c[3] - 2)
       ELSE strike = None

\* a message with the marker and two codes that end in different digits
C9_Witness ==
  /\ Parsed
  /\ Occurs(message[1], MarkerStrike)
  /\ Cardinality(Codes(message[1])) = 2
  /\ \E c \in Codes(message[1]) :
        message[1][c[3] - 2] # message[1][FirstCode(message[1])[3] - 2]
  /\ strike # None

\* C10: a present strike is exactly one character, the digit right before
\* the CE or PE of the first matching code, because the digits before it go
\* to the greedy run that is not captured; being a non-empty string it is
\* never discarded by the Series Builder, which appends its row.
C10_OneDigitStrike ==
  (Parsed /\ strike # None) =>
     /\ Len(strike[1]) = 1
     /\ strike[1][1] \in Digit
     /\ Codes(message[1]) # {}
     /\ strike[1][1] = message[1][FirstCode(message[1])[3] - 2]
     /\ data # <<>>
     /\ data[Len(data)] = [timestamp |-> timestamp[1], strike |-> strike[1]]

\* the message ATM strikes: BANKNIFTY24N0645000CE gave the strike "0"
C10_Witness ==
  /\ Parsed
  /\ message = Some(<<"A", "T", "M", " ", "s", "t", "r", "i", "k", "e", "s", ":", " ", "B", "A", "N", "K", "N", "I", "F", "T", "Y", "2", "4", "N", "0", "6", "4", "5", "0", "0", "0", "C", "E">>)
  /\ strike = Some(<<"0">>)
  /\ Len(data) = 1

Example2 == <<"2", "0", "2", "4", "-", "0", "1", "-", "1", "5", " ", "0", "9", ":", "3", "0", ":", "0", "0", ",", "4", "5", "6", ":", " ", "A", "T", "M", " ", "s", "t", "r", "i", "k", "e", "s", ":", " ", "B", "A", "N", "K", "N", "I", "F", "T", "Y", "2", "4", "J", "A", "N", "4", "5", "0", "0", "0", "C", "E">>

\* C1: the Series Builder run on the single line
\* 2024-01-15 09:30:00,456: ATM strikes: BANKNIFTY24JAN45000CE returns exactly
\* one row, the StrikeRecord with timestamp 2024-01-15T09:30:00.456 and
\* strike "45000".
C1_Example2 ==
  (pc = "done" /\ log_text = Example2) =>
     data = <<[timestamp |-> [year |-> 2024, month |-> 1, day |-> 15,
                              hour |-> 9, minute |-> 30, second |-> 0,
                              microsecond |-> 456000],
               strike |-> <<"4", "5", "0", "0", "0">>]>>

----------------------------------------------------------------------------
(* Series Builder                                                          *)

NewlinePos(t) == {i \in 1..Len(t) : t[i] = "\n"}

LineCount(t) == Cardinality(NewlinePos(t)) + 1

\* the k-th line of the text: what stands between its newlines k-1 and k
LineOf(t, k) ==
  LET P == NewlinePos(t)
      Nth(n) == CHOOSE i \in P : Cardinality({j \in P : j < i}) = n - 1
      from == IF k = 1 THEN 1 ELSE Nth(k - 1) + 1
      to == IF k = LineCount(t) THEN Len(t) ELSE Nth(k) - 1
  IN SubSeq(t, from, to)

\* the rows of a line on its own
RowsAlone(ln) ==
  LET parsed == parse_log_line(ln)
  IN IF parsed[1] = None THEN <<>>
     ELSE Rows(parsed[1][1], extract_oi_data(parsed[2][1]),
               extract_strike_data(parsed[2][1]))

\* the rows of the first n lines, each taken on its own, in line order
RECURSIVE RowsOfFirst(_, _)
RowsOfFirst(t, n) ==
  IF n = 0 THEN <<>>
  ELSE RowsOfFirst(t, n - 1) \o RowsAlone(LineOf(t, n))

\* C5: no line aborts or alters the processing of the others: no run ends
\* in an exception, the loop visits every line of the text, after each line
\* the rows are those that the lines so far yield on their own,
\* concatenated in line order, and so are the rows returned; a malformed
\* line adds nothing and takes nothing away.
C5_LinesIndependent ==
  /\ pc # "raised"
  /\ pc = "loop" =>
        /\ Len(lines) = LineCount(log_text)
        /\ idx \in 1..(Len(lines) + 1)
        /\ data = RowsOfFirst(log_text, idx - 1)
  /\ pc = "done" => data = RowsOfFirst(log_text, LineCount(log_text))

\* C6: rows are only ever appended, in line order and never re-sorted; one
\* iteration appends at most two rows, all with the timestamp of its line
\* and none when the line is not parsed; a line that satisfies both
\* extractors appends exactly the OI row and then the strike row; every row
\* is OI-shaped or strike-shaped, never neither and never both.
C6_RowOrderAndShape ==
  [][LET added == SubSeq(data', Len(data) + 1, Len(data'))
     IN /\ Len(data') >= Len(data)
        /\ SubSeq(data', 1, Len(data)) = data
        /\ Len(added) <= 2
        /\ \A i \in 1..Len(added) : IsOI(added[i]) # IsStrike(added[i])
        /\ (timestamp' = None \/ pc # "loop" \/ idx' = idx) => added = <<>>
        /\ (timestamp' # None) =>
              \A i \in 1..Len(added) : added[i].timestamp = timestamp'[1]
        /\ (pc = "loop" /\ idx' # idx /\ timestamp' # None
              /\ ce_oi' # None /\ pe_oi' # None /\ strike' # None) =>
              (Len(added) = 2 /\ IsOI(added[1]) /\ IsStrike(added[2]))
    ]_vars

\* milliseconds since midnight
TimeOfDay(t) ==
  ((t.hour * 60 + t.minute) * 60 + t.second) * 1000 + t.microsecond \div 1000

\* a returned table where an OI row is directly followed by a strike row of
\* the same timestamp, and where a row precedes a row of an earlier time
C6_Witness ==
  /\ pc = "done"
  /\ \E i \in 1..(Len(data) - 1) :
        /\ IsOI(data[i]) /\ IsStrike(data[i + 1])
        /\ data[i].timestamp = data[i + 1].timestamp
  /\ \E j, k \in 1..Len(data) :
        /\ j < k
        /\ TimeOfDay(data[j].timestamp) > TimeOfDay(data[k].timestamp)

\* C7: every OI row has oi_difference = ce_oi - pe_oi, signed; the row a
\* parsed line appends carries the pair the OI Extractor returned for it and
\* the timestamp the Line Parser returned for it.
C7_SignedDifference ==
  /\ \A i \in 1..Len(data) :
        IsOI(data[i]) => data[i].oi_difference = data[i].ce_oi - data[i].pe_oi
  /\ (Parsed /\ ce_oi # None /\ pe_oi # None) =>
        \E i \in {Len(data) - 1, Len(data)} \cap (1..Len(data)) :
           /\ IsOI(data[i])
           /\ data[i].timestamp = timestamp[1]
           /\ data[i].ce_oi = ce_oi[1]
           /\ data[i].pe_oi = pe_oi[1]
           /\ data[i].oi_difference = ce_oi[1] - pe_oi[1]

\* a table with an OI row whose put side exceeds its call side
C7_Witness ==
  \E i \in 1..Len(data) :
     /\ IsOI(data[i])
     /\ data[i].pe_oi > data[i].ce_oi
     /\ data[i].oi_difference < 0

====
